---- MODULE Spec2Model ----
(***************************************************************************)
(* Model of the mail-mover services:                                       *)
(*   imap-idle-sync.py   IMAPIdleSync  (IDLE watcher + sync engine)        *)
(*   gmail-push-sync.py  GmailPushSync (Pub/Sub push adapter)              *)
(* A behaviour is one run of one of the two programs.  Library and         *)
(* network calls (imaplib, subprocess, Pub/Sub, the health file) are       *)
(* nondeterministic choices over the outcomes their callers distinguish.   *)
(***************************************************************************)
EXTENDS Integers, FiniteSets, Sequences, TLC

\* ---------------------------------------------------------------- bounds
NumMessages == 2        \* push notifications delivered in one run
MaxBadSettings == 1     \* required settings that are unset or empty

\* --------------------------------------------------------------- threads
Main == 0               \* the main thread (also runs signal_handler)
Watcher == -1           \* IMAPIdleSync.idle_thread
Callbacks == 1..NumMessages   \* one Pub/Sub worker per delivered message
Threads == {Watcher, Main} \cup Callbacks

\* ---------------------------------------------------------- environment
Required == {"host1", "user1", "password1", "host2", "user2", "password2"}
Settings == {"unset", "empty", "set"}   \* os.getenv: None, '', a value

Environments ==
    {e \in [Required -> Settings] :
        Cardinality({k \in Required : e[k] # "set"}) <= MaxBadSettings}

VARIABLES
    scenario,     \* optional settings, mailbox contents and tool output of the run
    program,      \* "idle" (imap-idle-sync.py) or "push" (gmail-push-sync.py)
    env,          \* the environment the process was started with
    pc,           \* position of every thread
    ret,          \* where a thread continues when its sync pass returns
    running,      \* self.running
    sync_lock,    \* self.sync_lock is held
    source_conn,  \* self.source_conn: NoConn or the live imaplib object
    elapsed,      \* time.time() - start_time >= idle_timeout
    health,       \* content of /app/data/health
    lastReport,   \* the last update_health_file call
    pass,         \* per thread: what its current/last sync pass did
    sig,          \* progress of signal_handler / stop() on the main thread
    exitCode,     \* process exit status, NoExit while it runs
    watchEnd,     \* how the current watch ended
    lastConnect,  \* outcome of the last connect_source call
    backedOff,    \* time.sleep(30) ran since the last watch/connect event
    connUse,      \* the last command issued on the source connection
    msg           \* per Pub/Sub message: body, pending/delivered/acked/nacked

vars == <<scenario, program, env, pc, ret, running, sync_lock, source_conn, elapsed,
          health, lastReport, pass, sig, exitCode, watchEnd, lastConnect,
          backedOff, connUse, msg>>

\* ------------------------------------------------------- data and helpers
NoConn == [stage |-> "None", idle |-> FALSE]
Truthy(conn) == conn.stage # "None"

\* ---- settings with defaults (IMAPIdleSync.__init__, self.config)
DefaultConfig ==
    [move |-> FALSE, ssl1 |-> TRUE, ssl2 |-> TRUE, date_filter_days |-> 30,
     max_emails_per_sync |-> 1000, max_email_size |-> 50000000]
MoveConfig ==
    [move |-> TRUE, ssl1 |-> FALSE, ssl2 |-> TRUE, date_filter_days |-> 7,
     max_emails_per_sync |-> 5, max_email_size |-> 1000]

\* ---- messages of the last date_filter_days days in the two folders
EmptyMailbox == [source |-> 0, dest |-> 0]
Mailboxes == {EmptyMailbox, [source |-> 1200, dest |-> 50]}

\* ---- tool output (stdout + stderr) as a sequence of lower-cased tokens
W(s) == [w |-> s, n |-> 0]
Num(k) == [w |-> "num", n |-> k]
OutFortyTwo == <<Num(42), W("messages"), W("transferred")>>
OutLabelled == <<W("transferred"), W(":"), Num(3), W("skipped"), W(":"), Num(1),
                 W("errors"), W(":"), Num(2)>>
OutCopied == <<Num(5), W("messages"), W("copied"), Num(2), W("messages"),
               W("skipped")>>
OutBytes == <<W("total"), W("bytes"), W("transferred"), W(":"), Num(1000)>>
OutNoise == <<W("other"), Num(7), W("other")>>
Outputs == {<<>>, OutFortyTwo, OutLabelled, OutCopied, OutBytes, OutNoise}

DefaultScenario ==
    [config |-> DefaultConfig, mailbox |-> EmptyMailbox, output |-> <<>>]
Scenarios ==
    {[config |-> DefaultConfig, mailbox |-> m, output |-> <<>>] : m \in Mailboxes}
    \cup {[config |-> MoveConfig, mailbox |-> EmptyMailbox, output |-> <<>>]}
    \cup {[config |-> DefaultConfig, mailbox |-> EmptyMailbox, output |-> o] :
             o \in Outputs}

\* ---- folder contents and limits for the pre-check's arithmetic
PrecheckScenarios ==
    {[config |-> DefaultConfig, mailbox |-> m, output |-> <<>>] :
        m \in {[source |-> 1200, dest |-> 50], [source |-> 50, dest |-> 1200]}}
    \cup {[config |-> MoveConfig, mailbox |-> m, output |-> <<>>] :
        m \in {[source |-> 50, dest |-> 3], [source |-> 3, dest |-> 0]}}

StatNames == {"transferred", "skipped", "errors", "bytes"}
ZeroStats == [x \in StatNames |-> 0]
NoPrecheck == [source_count |-> 0, dest_count |-> 0, potential_to_move |-> 0,
               ready |-> 0]

NoPass == [tool |-> 0, reports |-> 0, rc |-> "none", status |-> "none",
           result |-> "none", listed |-> "none", cmd |-> <<>>,
           precheck |-> NoPrecheck, stats |-> ZeroStats]
NoReport == [by |-> Main, status |-> "none", stage |-> "None", written |-> FALSE,
             raised |-> FALSE]
NoUse == [by |-> Main, op |-> "none", via |-> "none"]

ToolOutcomes == {"zero", "nonzero", "timeout", "error"}
ConnectOutcomes == {"ok", "open_fails", "login_fails", "select_no", "select_raises"}
HealthIO == {"ok", "open_fails", "write_fails"}

\* exitCode while the process has not exited
NoExit == -1
Alive == exitCode = NoExit

\* IMAPIdleSync.__init__: missing = [k for k in required if not self.config[k]]
\* (variant that tests "is None" only, letting '' through)
missing_unset_only(cfg) == {k \in Required : cfg[k] = "unset"}
missing(cfg) == {k \in Required : cfg[k] \in {"unset", "empty"}}

\* with self.sync_lock: the lock can be taken only when nobody holds it
\* (variant without the lock: entry never blocks)
lock_free_always(l) == TRUE
lock_free(l) == l = FALSE

\* the argument list handed to subprocess.run (credential fields)
imapsync_cmd ==
    IF program = "idle"
    THEN [k \in Required |-> env[k]]
    ELSE [k \in Required |-> IF k = "host1" THEN "set" ELSE env[k]]

\* ---- sync_emails(): if self.config['move']: cmd.append('--delete1')
\* (variant that appends the flag in copy mode)
move_flag_inverted(cfg) == IF cfg.move THEN <<>> ELSE <<"--delete1">>
move_flag(cfg) == IF cfg.move THEN <<"--delete1">> ELSE <<>>

Min(a, b) == IF a < b THEN a ELSE b
Max(a, b) == IF a > b THEN a ELSE b

\* ---- sync_emails(): the argument list; email_count is what the pre-check
\*      returned and is not used
\* (variant that caps --maxmessages by the pre-check count)
sync_emails_cmd_counted(cfg, e, email_count) ==
    <<"imapsync", "--host1", e["host1"], "--user1", e["user1"],
      "--password1", e["password1"], "--host2", e["host2"],
      "--user2", e["user2"], "--password2", e["password2"],
      "--folder", "INBOX", "--useuid", "--automap", "--fastio1", "--fastio2",
      "--syncinternaldates", "--skipcrossduplicates",
      "--maxage", ToString(cfg.date_filter_days),
      "--maxmessages", ToString(Min(email_count, cfg.max_emails_per_sync)),
      "--maxsize", ToString(cfg.max_email_size)>>
    \o (IF cfg.ssl1 THEN <<"--ssl1">> ELSE <<>>)
    \o (IF cfg.ssl2 THEN <<"--ssl2">> ELSE <<>>)
    \o move_flag(cfg)
sync_emails_cmd(cfg, e, email_count) ==
    <<"imapsync", "--host1", e["host1"], "--user1", e["user1"],
      "--password1", e["password1"], "--host2", e["host2"],
      "--user2", e["user2"], "--password2", e["password2"],
      "--folder", "INBOX", "--useuid", "--automap", "--fastio1", "--fastio2",
      "--syncinternaldates", "--skipcrossduplicates",
      "--maxage", ToString(cfg.date_filter_days),
      "--maxmessages", ToString(cfg.max_emails_per_sync),
      "--maxsize", ToString(cfg.max_email_size)>>
    \o (IF cfg.ssl1 THEN <<"--ssl1">> ELSE <<>>)
    \o (IF cfg.ssl2 THEN <<"--ssl2">> ELSE <<>>)
    \o move_flag(cfg)

\* ---- sync_with_imapsync(): the argument list of the push adapter
sync_with_imapsync_cmd(cfg, e) ==
    <<"imapsync", "--host1", "imap.gmail.com", "--user1", e["user1"],
      "--password1", e["password1"], "--ssl1", "--host2", e["host2"],
      "--user2", e["user2"], "--password2", e["password2"],
      "--folder", "INBOX", "--useuid", "--automap", "--fastio1", "--fastio2",
      "--syncinternaldates", "--skipcrossduplicates">>
    \o (IF cfg.ssl2 THEN <<"--ssl2">> ELSE <<>>)
    \o move_flag(cfg)

\* ---- check_existing_emails(): the numbers it logs
\* (variant that announces the estimate without the limit)
precheck_result_uncapped(source_count, dest_count, cfg) ==
    LET potential == IF source_count > 0
                     THEN Max(0, source_count - dest_count) ELSE 0
    IN [source_count |-> source_count, dest_count |-> dest_count,
        potential_to_move |-> potential, ready |-> potential]
precheck_result(source_count, dest_count, cfg) ==
    LET potential == IF source_count > 0
                     THEN Max(0, source_count - dest_count) ELSE 0
    IN [source_count |-> source_count, dest_count |-> dest_count,
        potential_to_move |-> potential,
        ready |-> IF potential > 0
                  THEN Min(potential, cfg.max_emails_per_sync) ELSE 0]

\* ---- sync_emails(): the pre-check's return value is not looked at
\* (variant that skips the transfer when the pre-check found nothing)
after_precheck_gated(email_count) ==
    IF email_count = 0 THEN "imapsync_wait" ELSE "imapsync"
after_precheck(email_count) == "imapsync"

\* ---- sync_emails(): the statistics patterns, in the order they are tried;
\*      cap is the position of the (\d+) group
Patterns ==
    <<[toks |-> <<"transferred", ":", "NUM">>, cap |-> 3, stat |-> "transferred"],
      [toks |-> <<"skipped", ":", "NUM">>, cap |-> 3, stat |-> "skipped"],
      [toks |-> <<"errors", ":", "NUM">>, cap |-> 3, stat |-> "errors"],
      [toks |-> <<"NUM", "messages", "transferred">>, cap |-> 1, stat |-> "transferred"],
      [toks |-> <<"NUM", "messages", "skipped">>, cap |-> 1, stat |-> "skipped"],
      [toks |-> <<"NUM", "messages", "copied">>, cap |-> 1, stat |-> "transferred"],
      [toks |-> <<"total", "bytes", "transferred", ":", "NUM">>, cap |-> 5, stat |-> "bytes"]>>

TokMatches(ptok, tok) == IF ptok = "NUM" THEN tok.w = "num" ELSE tok.w = ptok

MatchesAt(toks, out, i) ==
    /\ i + Len(toks) - 1 <= Len(out)
    /\ \A j \in 1..Len(toks) : TokMatches(toks[j], out[i + j - 1])

\* re.search: position of the leftmost match, 0 when there is none
FirstMatch(toks, out) ==
    LET hits == {i \in 1..Len(out) : MatchesAt(toks, out, i)}
    IN IF hits = {} THEN 0 ELSE CHOOSE i \in hits : \A h \in hits : i <= h

\* for pattern, stat_type in patterns: ... stats[stat_type] = int(match.group(1))
RECURSIVE apply_patterns(_, _, _, _)
apply_patterns(pats, k, out, stats) ==
    IF k > Len(pats) THEN stats
    ELSE LET i == FirstMatch(pats[k].toks, out)
         IN apply_patterns(pats, k + 1, out,
                IF i = 0 THEN stats
                ELSE [stats EXCEPT ![pats[k].stat] = out[i + pats[k].cap - 1].n])

\* stats.get(name, 0) for the four statistics
\* (variant that knows the "Label: N" vocabulary only)
parse_stats_labelled_only(out) == apply_patterns(SubSeq(Patterns, 1, 3), 1, out, ZeroStats)
parse_stats(out) == apply_patterns(Patterns, 1, out, ZeroStats)

\* ---- sync_emails(): returncode == 0 is success, whatever was parsed
\* (variant that wants a recognised statistic for success)
sync_success_needs_stats(outcome, stats) ==
    outcome = "zero" /\ \E x \in StatNames : stats[x] > 0
sync_success(outcome, stats) == outcome = "zero"

\* open(health_file, 'w') then two writes; any failure is swallowed
HealthWrite(h, status, io) ==
    CASE io = "ok" -> status
      [] io = "open_fails" -> h
      [] OTHER -> "truncated"

\* update_health_file(): try: ... except Exception: pass -- nothing reaches
\* the caller (variant without the except clause)
health_raises_unhandled(io) == io # "ok"
health_raises(io) == FALSE

update_health_file(t, status, conn) ==
    \E io \in HealthIO :
        /\ health' = HealthWrite(health, status, io)
        /\ lastReport' = [by |-> t, status |-> status, stage |-> conn.stage,
                          written |-> (io = "ok"), raised |-> health_raises(io)]

\* status written by sync_emails for a tool outcome
\* (variant that reports healthy on every exit path)
sync_status_always_healthy(outcome) == "healthy"
sync_status(outcome) == IF outcome = "zero" THEN "healthy" ELSE "unhealthy"

\* a Pub/Sub message: its body, the handler's acknowledgement decision, and
\* the calls the handler made
Payloads == {"json", "garbage"}
NoMessage == [state |-> "pending", payload |-> "none", passes |-> 0, decisions |-> 0]

\* json.loads(message.data.decode('utf-8')) returns for a JSON body and
\* raises otherwise (variant that accepts every body)
decodes_anything(payload) == TRUE
decodes(payload) == payload = "json"

\* ----------------------------------------------------------------- Init
InitState ==
    /\ program \in {"idle", "push"}
    /\ env \in Environments
    /\ pc = [t \in Threads |->
               IF t = Main THEN "init"
               ELSE IF t = Watcher THEN "not_started" ELSE "pending"]
    /\ ret = [t \in Threads |-> "none"]
    /\ running = FALSE
    /\ sync_lock = FALSE
    /\ source_conn = NoConn
    /\ elapsed = FALSE
    /\ health = "absent"
    /\ lastReport = NoReport
    /\ pass = [t \in Threads |-> NoPass]
    /\ sig = "none"
    /\ exitCode = NoExit
    /\ watchEnd = "none"
    /\ lastConnect = "none"
    /\ backedOff = FALSE
    /\ connUse = NoUse
    /\ msg = [c \in Callbacks |-> NoMessage]

\* a run with the default optional settings, empty folders and a silent tool
Init == scenario = DefaultScenario /\ InitState

\* a run under any of the scenarios
InitScenarios == scenario \in Scenarios /\ InitState

\* ===================================================== imap-idle-sync.py
\* ---- __main__ / IMAPIdleSync.__init__ : validate the configuration
IMAPIdleSync_init ==
    /\ program = "idle" /\ Alive /\ sig = "none"
    /\ pc[Main] = "init"
    /\ IF missing(env) # {}
       THEN \* raise ValueError -> except Exception -> sys.exit(1)
            /\ exitCode' = 1
            /\ pc' = [pc EXCEPT ![Main] = "exited"]
       ELSE /\ exitCode' = exitCode
            /\ pc' = [pc EXCEPT ![Main] = "start"]
    /\ UNCHANGED <<scenario, program, env, ret, running, sync_lock, source_conn, elapsed,
                   health, lastReport, pass, sig, watchEnd, lastConnect,
                   backedOff, connUse, msg>>

\* ---- start(): running = True, then the initial sync_emails()
\* (variant that starts idle_thread before the initial sync)
start_thread_first ==
    /\ program = "idle" /\ Alive /\ sig = "none"
    /\ pc[Main] = "start"
    /\ running' = TRUE
    /\ pc' = [pc EXCEPT ![Main] = "sync_emails", ![Watcher] = "idle_loop"]
    /\ ret' = [ret EXCEPT ![Main] = "main_loop"]
    /\ UNCHANGED <<scenario, program, env, sync_lock, source_conn, elapsed, health,
                   lastReport, pass, sig, exitCode, watchEnd, lastConnect,
                   backedOff, connUse, msg>>
start ==
    /\ program = "idle" /\ Alive /\ sig = "none"
    /\ pc[Main] = "start"
    /\ running' = TRUE
    /\ pc' = [pc EXCEPT ![Main] = "sync_emails"]
    /\ ret' = [ret EXCEPT ![Main] = "start_thread"]
    /\ UNCHANGED <<scenario, program, env, sync_lock, source_conn, elapsed, health,
                   lastReport, pass, sig, exitCode, watchEnd, lastConnect,
                   backedOff, connUse, msg>>

\* ---- start(): create and start the daemon idle_thread, then sleep-loop
\* (variant that starts the watcher only after a successful initial sync)
start_thread_if_synced ==
    /\ program = "idle" /\ Alive /\ sig = "none"
    /\ pc[Main] = "start_thread"
    /\ pc' = [pc EXCEPT ![Main] = "main_loop",
                        ![Watcher] = IF pass[Main].result = "true"
                                     THEN "idle_loop" ELSE "not_started"]
    /\ UNCHANGED <<scenario, program, env, ret, running, sync_lock, source_conn, elapsed,
                   health, lastReport, pass, sig, exitCode, watchEnd,
                   lastConnect, backedOff, connUse, msg>>
start_thread ==
    /\ program = "idle" /\ Alive /\ sig = "none"
    /\ pc[Main] = "start_thread"
    /\ pc' = [pc EXCEPT ![Main] = "main_loop", ![Watcher] = "idle_loop"]
    /\ UNCHANGED <<scenario, program, env, ret, running, sync_lock, source_conn, elapsed,
                   health, lastReport, pass, sig, exitCode, watchEnd,
                   lastConnect, backedOff, connUse, msg>>

\* a thread can take a step: the process lives, and the main thread is not
\* suspended inside signal_handler
CanStep(t) == Alive /\ (t = Main => sig = "none")

\* ---- sync_emails(): with self.sync_lock (blocks while the lock is held)
sync_emails_lock(t) ==
    /\ program = "idle" /\ CanStep(t)
    /\ pc[t] = "sync_emails"
    /\ lock_free(sync_lock)
    /\ sync_lock' = TRUE
    /\ pass' = [pass EXCEPT ![t] = NoPass]
    /\ pc' = [pc EXCEPT ![t] = "check_existing_emails"]
    /\ UNCHANGED <<scenario, program, env, ret, running, source_conn, elapsed, health,
                   lastReport, sig, exitCode, watchEnd, lastConnect,
                   backedOff, connUse, msg>>

\* the source SEARCH counts messages only on a usable handle
SearchResults(conn) ==
    IF Truthy(conn) /\ conn.stage # "loggedout" THEN BOOLEAN ELSE {FALSE}

\* ---- check_existing_emails(): SEARCH on self.source_conn when it is set;
\*      every failure is caught, the count is only logged
check_existing_emails(t) ==
    /\ program = "idle" /\ CanStep(t)
    /\ pc[t] = "check_existing_emails"
    /\ connUse' = IF Truthy(source_conn)
                  THEN [by |-> t, op |-> "SEARCH", via |-> "check_existing_emails"]
                  ELSE connUse
    /\ \E source_ok \in SearchResults(source_conn), dest_ok \in BOOLEAN,
          raised \in BOOLEAN :
        LET source_count == IF source_ok THEN scenario.mailbox.source ELSE 0
            dest_count == IF dest_ok THEN scenario.mailbox.dest ELSE 0
            logged == IF raised THEN NoPrecheck
                      ELSE precheck_result(source_count, dest_count, scenario.config)
            email_count == IF raised THEN 0 ELSE source_count
        IN /\ pass' = [pass EXCEPT ![t].precheck = logged]
           /\ pc' = [pc EXCEPT ![t] = after_precheck(email_count)]
    /\ UNCHANGED <<scenario, program, env, ret, running, sync_lock, source_conn, elapsed,
                   health, lastReport, sig, exitCode, watchEnd,
                   lastConnect, backedOff, msg>>

\* ---- sync_emails(): build cmd, subprocess.run(cmd, timeout=600) starts
sync_emails_run(t) ==
    /\ program = "idle" /\ CanStep(t)
    /\ pc[t] = "imapsync"
    /\ pass' = [pass EXCEPT ![t].tool = @ + 1,
                            ![t].cmd = sync_emails_cmd(scenario.config, env,
                                           pass[t].precheck.source_count)]
    /\ pc' = [pc EXCEPT ![t] = "imapsync_wait"]
    /\ UNCHANGED <<scenario, program, env, ret, running, sync_lock, source_conn, elapsed,
                   health, lastReport, sig, exitCode, watchEnd, lastConnect,
                   backedOff, connUse, msg>>

\* ---- sync_emails(): the tool ends; classify, report health, release, return
sync_emails_done(t) ==
    /\ program = "idle" /\ CanStep(t)
    /\ pc[t] = "imapsync_wait"
    /\ \E outcome \in ToolOutcomes :
        /\ update_health_file(t, sync_status(outcome), source_conn)
        /\ LET stats == IF outcome = "zero" THEN parse_stats(scenario.output)
                        ELSE ZeroStats
           IN pass' = [pass EXCEPT ![t].rc = outcome,
                                   ![t].reports = @ + 1,
                                   ![t].status = sync_status(outcome),
                                   ![t].stats = stats,
                                   ![t].result = IF sync_success(outcome, stats)
                                                 THEN "true" ELSE "false"]
    /\ sync_lock' = FALSE
    /\ pc' = [pc EXCEPT ![t] = ret[t]]
    /\ UNCHANGED <<scenario, program, env, ret, running, source_conn, elapsed, sig,
                   exitCode, watchEnd, lastConnect, backedOff, connUse, msg>>

\* ---- connect_source(): open the transport, login, select
\*      self.source_conn is assigned as soon as the transport is open
connect_result(r) ==
    CASE r = "open_fails" -> NoConn
      [] r = "login_fails" -> [stage |-> "open", idle |-> FALSE]
      [] r = "select_raises" -> [stage |-> "auth", idle |-> FALSE]
      [] r = "select_no" -> [stage |-> "auth", idle |-> FALSE]
      [] OTHER -> [stage |-> "selected", idle |-> FALSE]

connect_returns(r) == r \in {"ok", "select_no"}

\* ---- idle_loop(): while self.running / if not self.source_conn
idle_loop ==
    /\ program = "idle" /\ CanStep(Watcher)
    /\ pc[Watcher] = "idle_loop"
    /\ pc' = [pc EXCEPT ![Watcher] =
                IF ~running THEN "done"
                ELSE IF ~Truthy(source_conn) THEN "connect_source"
                ELSE "idle_report"]
    /\ UNCHANGED <<scenario, program, env, ret, running, sync_lock, source_conn, elapsed,
                   health, lastReport, pass, sig, exitCode, watchEnd,
                   lastConnect, backedOff, connUse, msg>>

\* ---- idle_loop(): if not self.connect_source(): unhealthy, sleep(30), continue
connect_source ==
    /\ program = "idle" /\ CanStep(Watcher)
    /\ pc[Watcher] = "connect_source"
    /\ \E r \in ConnectOutcomes :
        /\ source_conn' = connect_result(r)
        /\ lastConnect' = r
        /\ IF connect_returns(r)
           THEN /\ pc' = [pc EXCEPT ![Watcher] = "idle_report"]
                /\ UNCHANGED <<health, lastReport>>
           ELSE /\ pc' = [pc EXCEPT ![Watcher] = "backoff"]
                /\ update_health_file(Watcher, "unhealthy", connect_result(r))
    /\ watchEnd' = "none"
    /\ backedOff' = FALSE
    /\ connUse' = [by |-> Watcher, op |-> "CONNECT", via |-> "connect_source"]
    /\ UNCHANGED <<scenario, program, env, ret, running, sync_lock, elapsed, pass, sig,
                   exitCode, msg>>

\* ---- idle_loop(): time.sleep(30) after a failed connect or a loop error
backoff ==
    /\ program = "idle" /\ CanStep(Watcher)
    /\ pc[Watcher] = "backoff"
    /\ backedOff' = TRUE
    /\ pc' = [pc EXCEPT ![Watcher] = "idle_loop"]
    /\ UNCHANGED <<scenario, program, env, ret, running, sync_lock, source_conn, elapsed,
                   health, lastReport, pass, sig, exitCode, watchEnd,
                   lastConnect, connUse, msg>>

\* ---- idle_loop(): outer "except Exception": drop the handle, unhealthy,
\*      sleep(30), next iteration
\* (variant without the outer handler: the exception ends the thread)
idle_loop_uncaught ==
    /\ source_conn' = source_conn
    /\ UNCHANGED <<health, lastReport>>
    /\ pc' = [pc EXCEPT ![Watcher] = "crashed"]
idle_loop_except ==
    /\ source_conn' = NoConn
    /\ update_health_file(Watcher, "unhealthy", NoConn)
    /\ pc' = [pc EXCEPT ![Watcher] = "backoff"]

\* ---- idle_loop(): update_health_file("healthy") before IDLE
idle_report ==
    /\ program = "idle" /\ CanStep(Watcher)
    /\ pc[Watcher] = "idle_report"
    /\ update_health_file(Watcher, "healthy", source_conn)
    /\ pc' = [pc EXCEPT ![Watcher] = "send_idle"]
    /\ UNCHANGED <<scenario, program, env, ret, running, sync_lock, source_conn, elapsed,
                   pass, sig, exitCode, watchEnd, lastConnect, backedOff,
                   connUse, msg>>

\* a send on the socket can fail at any time, and does after logout()
SendResults(conn) == IF conn.stage = "loggedout" THEN {FALSE} ELSE BOOLEAN

\* ---- idle_loop(): self.source_conn.send(b'IDLE\r\n'); start_time = now
send_idle ==
    /\ program = "idle" /\ CanStep(Watcher)
    /\ pc[Watcher] = "send_idle"
    /\ \E ok \in SendResults(source_conn) :
        IF ok
        THEN /\ source_conn' = [source_conn EXCEPT !.idle = TRUE]
             /\ connUse' = [by |-> Watcher, op |-> "IDLE", via |-> "idle_loop"]
             /\ elapsed' = FALSE
             /\ backedOff' = FALSE
             /\ pc' = [pc EXCEPT ![Watcher] = "poll"]
             /\ UNCHANGED <<health, lastReport>>
        ELSE /\ idle_loop_except
             /\ UNCHANGED <<connUse, elapsed, backedOff>>
    /\ watchEnd' = "none"
    /\ UNCHANGED <<scenario, program, env, ret, running, sync_lock, pass, sig, exitCode,
                   lastConnect, msg>>

\* ---- the clock passes start_time + idle_timeout during a watch
WatchPcs == {"poll", "response", "send_done", "after_watch", "sync_emails",
             "check_existing_emails", "imapsync", "imapsync_wait"}
TimePasses ==
    /\ program = "idle" /\ Alive
    /\ pc[Watcher] \in WatchPcs
    /\ ~elapsed
    /\ elapsed' = TRUE
    /\ UNCHANGED <<scenario, program, env, pc, ret, running, sync_lock, source_conn,
                   health, lastReport, pass, sig, exitCode, watchEnd,
                   lastConnect, backedOff, connUse, msg>>

\* ---- idle_loop(): inner while condition, then the 30 s heartbeat
poll ==
    /\ program = "idle" /\ CanStep(Watcher)
    /\ pc[Watcher] = "poll"
    /\ IF running /\ ~elapsed
       THEN /\ pc' = [pc EXCEPT ![Watcher] = "response"]
            /\ \E due \in BOOLEAN :
                IF due THEN update_health_file(Watcher, "healthy", source_conn)
                ELSE UNCHANGED <<health, lastReport>>
       ELSE /\ pc' = [pc EXCEPT ![Watcher] = "after_watch"]
            /\ UNCHANGED <<health, lastReport>>
    /\ UNCHANGED <<scenario, program, env, ret, running, sync_lock, source_conn, elapsed,
                   pass, sig, exitCode, watchEnd, lastConnect, backedOff,
                   connUse, msg>>

\* what self.source_conn.response('IDLE') can do
Responses(conn) ==
    IF conn.stage = "loggedout" THEN {"abort", "error"}
    ELSE {"none", "OK", "abort", "error"}

\* ---- idle_loop(): response = self.source_conn.response('IDLE')
response ==
    /\ program = "idle" /\ CanStep(Watcher)
    /\ pc[Watcher] = "response"
    /\ \E r \in Responses(source_conn) :
        CASE r = "OK" ->
               /\ pc' = [pc EXCEPT ![Watcher] = "send_done"]
               /\ connUse' = [by |-> Watcher, op |-> "RESPONSE", via |-> "idle_loop"]
               /\ UNCHANGED <<source_conn, health, lastReport, watchEnd>>
          [] r = "abort" ->
               \* except imaplib.IMAP4.abort: handle None, unhealthy, break
               /\ source_conn' = NoConn
               /\ update_health_file(Watcher, "unhealthy", NoConn)
               /\ watchEnd' = "lost"
               /\ connUse' = [by |-> Watcher, op |-> "RESPONSE", via |-> "idle_loop"]
               /\ pc' = [pc EXCEPT ![Watcher] = "after_watch"]
          [] OTHER ->
               \* nothing yet, or except Exception: time.sleep(1)
               /\ pc' = [pc EXCEPT ![Watcher] = "poll"]
               /\ connUse' = [by |-> Watcher, op |-> "RESPONSE", via |-> "idle_loop"]
               /\ UNCHANGED <<source_conn, health, lastReport, watchEnd>>
    /\ UNCHANGED <<scenario, program, env, ret, running, sync_lock, elapsed, pass, sig,
                   exitCode, lastConnect, backedOff, msg>>

\* ---- idle_loop(): new mail: send DONE, sync_emails(), break
send_done ==
    /\ program = "idle" /\ CanStep(Watcher)
    /\ pc[Watcher] = "send_done"
    /\ \E ok \in SendResults(source_conn) :
        IF ok
        THEN /\ source_conn' = [source_conn EXCEPT !.idle = FALSE]
             /\ connUse' = [by |-> Watcher, op |-> "DONE", via |-> "idle_loop"]
             /\ watchEnd' = "change"
             /\ pc' = [pc EXCEPT ![Watcher] = "sync_emails"]
             /\ ret' = [ret EXCEPT ![Watcher] = "after_watch"]
        ELSE \* except Exception: time.sleep(1), stay in the inner loop
             /\ pc' = [pc EXCEPT ![Watcher] = "poll"]
             /\ UNCHANGED <<source_conn, connUse, watchEnd, ret>>
    /\ UNCHANGED <<scenario, program, env, running, sync_lock, elapsed, health,
                   lastReport, pass, sig, exitCode, lastConnect, backedOff, msg>>

\* ---- idle_loop(): "Reconnect to refresh IDLE": self.source_conn = None
\* (variant that keeps the handle after the periodic sync)
refresh_conn_keep(conn) == conn
refresh_conn(conn) == NoConn

\* ---- idle_loop(): periodic sync when the idle timeout has been reached:
\*      DONE in try/except-pass, then sync_emails()
after_watch ==
    /\ program = "idle" /\ CanStep(Watcher)
    /\ pc[Watcher] = "after_watch"
    /\ IF running /\ elapsed
       THEN /\ \E ok \in SendResults(source_conn) :
                IF ok /\ Truthy(source_conn)
                THEN /\ source_conn' = [source_conn EXCEPT !.idle = FALSE]
                     /\ connUse' = [by |-> Watcher, op |-> "DONE", via |-> "idle_loop"]
                ELSE UNCHANGED <<source_conn, connUse>>
            /\ watchEnd' = IF watchEnd = "lost" THEN "lost" ELSE "timeout"
            /\ pc' = [pc EXCEPT ![Watcher] = "sync_emails"]
            /\ ret' = [ret EXCEPT ![Watcher] = "refresh"]
       ELSE /\ pc' = [pc EXCEPT ![Watcher] = "idle_loop"]
            /\ UNCHANGED <<source_conn, connUse, watchEnd, ret>>
    /\ UNCHANGED <<scenario, program, env, running, sync_lock, elapsed, health,
                   lastReport, pass, sig, exitCode, lastConnect, backedOff, msg>>

\* ---- idle_loop(): after the periodic sync: self.source_conn = None
refresh ==
    /\ program = "idle" /\ CanStep(Watcher)
    /\ pc[Watcher] = "refresh"
    /\ source_conn' = refresh_conn(source_conn)
    /\ pc' = [pc EXCEPT ![Watcher] = "idle_loop"]
    /\ UNCHANGED <<scenario, program, env, ret, running, sync_lock, elapsed, health,
                   lastReport, pass, sig, exitCode, watchEnd, lastConnect,
                   backedOff, connUse, msg>>

\* ---- SIGTERM / SIGINT arrives: signal_handler runs on the main thread,
\*      which is suspended wherever it was
Signal ==
    /\ program = "idle" /\ Alive
    /\ sig = "none"
    /\ sig' = "signal_handler"
    /\ UNCHANGED <<scenario, program, env, pc, ret, running, sync_lock, source_conn,
                   elapsed, health, lastReport, pass, exitCode, watchEnd,
                   lastConnect, backedOff, connUse, msg>>

\* ---- signal_handler(): if 'sync_service' in globals(): sync_service.stop()
\*      stop(): self.running = False
signal_handler ==
    /\ program = "idle" /\ Alive
    /\ sig = "signal_handler"
    /\ IF pc[Main] = "init"
       THEN /\ sig' = "exit"
            /\ UNCHANGED running
       ELSE /\ sig' = "stop"
            /\ running' = FALSE
    /\ UNCHANGED <<scenario, program, env, pc, ret, sync_lock, source_conn, elapsed,
                   health, lastReport, pass, exitCode, watchEnd, lastConnect,
                   backedOff, connUse, msg>>

\* ---- stop(): if self.source_conn:
stop ==
    /\ program = "idle" /\ Alive
    /\ sig = "stop"
    /\ sig' = IF Truthy(source_conn) THEN "stop_done" ELSE "stop_join"
    /\ UNCHANGED <<scenario, program, env, pc, ret, running, sync_lock, source_conn,
                   elapsed, health, lastReport, pass, exitCode, watchEnd,
                   lastConnect, backedOff, connUse, msg>>

\* ---- stop(): self.source_conn.send(b'DONE\r\n') inside try/except-pass
stop_done ==
    /\ program = "idle" /\ Alive
    /\ sig = "stop_done"
    /\ \E ok \in SendResults(source_conn) :
        IF ok /\ Truthy(source_conn)
        THEN /\ source_conn' = [source_conn EXCEPT !.idle = FALSE]
             /\ connUse' = [by |-> Main, op |-> "DONE", via |-> "stop"]
             /\ sig' = "stop_logout"
        ELSE /\ sig' = "stop_join"
             /\ UNCHANGED <<source_conn, connUse>>
    /\ UNCHANGED <<scenario, program, env, pc, ret, running, sync_lock, elapsed, health,
                   lastReport, pass, exitCode, watchEnd, lastConnect,
                   backedOff, msg>>

\* ---- stop(): self.source_conn.logout() inside the same try/except-pass
stop_logout ==
    /\ program = "idle" /\ Alive
    /\ sig = "stop_logout"
    /\ IF Truthy(source_conn)
       THEN /\ source_conn' = [source_conn EXCEPT !.stage = "loggedout"]
            /\ connUse' = [by |-> Main, op |-> "LOGOUT", via |-> "stop"]
       ELSE UNCHANGED <<source_conn, connUse>>
    /\ sig' = "stop_join"
    /\ UNCHANGED <<scenario, program, env, pc, ret, running, sync_lock, elapsed, health,
                   lastReport, pass, exitCode, watchEnd, lastConnect,
                   backedOff, msg>>

\* ---- stop(): if self.idle_thread: self.idle_thread.join(timeout=5)
stop_join ==
    /\ program = "idle" /\ Alive
    /\ sig = "stop_join"
    /\ sig' = "exit"
    /\ UNCHANGED <<scenario, program, env, pc, ret, running, sync_lock, source_conn,
                   elapsed, health, lastReport, pass, exitCode, watchEnd,
                   lastConnect, backedOff, connUse, msg>>

\* positions inside "with self.sync_lock"
PassPcs == {"check_existing_emails", "imapsync", "imapsync_wait",
            "messages_list", "sync_with_imapsync", "push_imapsync_wait"}

\* ---- signal_handler(): sys.exit(0): SystemExit unwinds the main thread
\*      (leaving a with-block releases the lock), the daemon thread dies
signal_exit ==
    /\ program = "idle" /\ Alive
    /\ sig = "exit"
    /\ exitCode' = 0
    /\ sync_lock' = IF pc[Main] \in PassPcs THEN FALSE ELSE sync_lock
    /\ pc' = [pc EXCEPT ![Main] = "exited"]
    /\ sig' = "exited"
    /\ UNCHANGED <<scenario, program, env, ret, running, source_conn, elapsed, health,
                   lastReport, pass, watchEnd, lastConnect, backedOff,
                   connUse, msg>>

\* ===================================================== gmail-push-sync.py
\* ---- __main__ / GmailPushSync.__init__: reads the settings, validates none
GmailPushSync_init ==
    /\ program = "push" /\ Alive
    /\ pc[Main] = "init"
    /\ pc' = [pc EXCEPT ![Main] = "gmail_start"]
    /\ UNCHANGED <<scenario, program, env, ret, running, sync_lock, source_conn, elapsed,
                   health, lastReport, pass, sig, exitCode, watchEnd,
                   lastConnect, backedOff, connUse, msg>>

\* ---- start(): SubscriberClient, authenticate_gmail, setup_push_notifications;
\*      a failure is re-raised and __main__ exits with 1; else the initial sync
gmail_start ==
    /\ program = "push" /\ Alive
    /\ pc[Main] = "gmail_start"
    /\ \E ok \in BOOLEAN :
        IF ok
        THEN /\ pc' = [pc EXCEPT ![Main] = "sync_emails_gmail_api"]
             /\ ret' = [ret EXCEPT ![Main] = "subscribe"]
             /\ UNCHANGED exitCode
        ELSE /\ pc' = [pc EXCEPT ![Main] = "exited"]
             /\ exitCode' = 1
             /\ UNCHANGED ret
    /\ UNCHANGED <<scenario, program, env, running, sync_lock, source_conn, elapsed,
                   health, lastReport, pass, sig, watchEnd, lastConnect,
                   backedOff, connUse, msg>>

\* ---- start(): self.running = True; subscriber.subscribe(callback=...)
subscribe ==
    /\ program = "push" /\ Alive
    /\ pc[Main] = "subscribe"
    /\ running' = TRUE
    /\ pc' = [pc EXCEPT ![Main] = "listening"]
    /\ UNCHANGED <<scenario, program, env, ret, sync_lock, source_conn, elapsed, health,
                   lastReport, pass, sig, exitCode, watchEnd, lastConnect,
                   backedOff, connUse, msg>>

\* ---- the Pub/Sub client hands message c to callback() on a worker thread
deliver(c) ==
    /\ program = "push" /\ Alive
    /\ pc[Main] = "listening"
    /\ pc[c] = "pending"
    /\ \E body \in Payloads :
        msg' = [msg EXCEPT ![c].state = "delivered", ![c].payload = body]
    /\ pc' = [pc EXCEPT ![c] = "callback"]
    /\ UNCHANGED <<scenario, program, env, ret, running, sync_lock, source_conn, elapsed,
                   health, lastReport, pass, sig, exitCode, watchEnd,
                   lastConnect, backedOff, connUse>>

\* ---- callback(): json.loads(message.data.decode()); a failure -> nack()
\*      (variant that acknowledges before it triggers the synchronization)
callback_ack_first(c) ==
    /\ program = "push" /\ Alive
    /\ pc[c] = "callback"
    /\ IF decodes(msg[c].payload)
       THEN /\ pc' = [pc EXCEPT ![c] = "sync_emails_gmail_api"]
            /\ ret' = [ret EXCEPT ![c] = "done"]
            /\ msg' = [msg EXCEPT ![c].state = "acked", ![c].decisions = @ + 1]
       ELSE /\ pc' = [pc EXCEPT ![c] = "done"]
            /\ msg' = [msg EXCEPT ![c].state = "nacked", ![c].decisions = @ + 1]
            /\ UNCHANGED ret
    /\ UNCHANGED <<scenario, program, env, running, sync_lock, source_conn, elapsed,
                   health, lastReport, pass, sig, exitCode, watchEnd,
                   lastConnect, backedOff, connUse>>
callback(c) ==
    /\ program = "push" /\ Alive
    /\ pc[c] = "callback"
    /\ IF decodes(msg[c].payload)
       THEN /\ pc' = [pc EXCEPT ![c] = "sync_emails_gmail_api"]
            /\ ret' = [ret EXCEPT ![c] = "ack"]
            /\ UNCHANGED msg
       ELSE /\ pc' = [pc EXCEPT ![c] = "done"]
            /\ msg' = [msg EXCEPT ![c].state = "nacked", ![c].decisions = @ + 1]
            /\ UNCHANGED ret
    /\ UNCHANGED <<scenario, program, env, running, sync_lock, source_conn, elapsed,
                   health, lastReport, pass, sig, exitCode, watchEnd,
                   lastConnect, backedOff, connUse>>

\* ---- sync_emails_gmail_api(): with self.sync_lock
sync_emails_gmail_api(t) ==
    /\ program = "push" /\ Alive
    /\ pc[t] = "sync_emails_gmail_api"
    /\ lock_free(sync_lock)
    /\ sync_lock' = TRUE
    /\ pass' = [pass EXCEPT ![t] = NoPass]
    /\ pc' = [pc EXCEPT ![t] = "messages_list"]
    /\ msg' = IF t \in Callbacks THEN [msg EXCEPT ![t].passes = @ + 1] ELSE msg
    /\ UNCHANGED <<scenario, program, env, ret, running, source_conn, elapsed, health,
                   lastReport, sig, exitCode, watchEnd, lastConnect,
                   backedOff, connUse>>

\* ---- sync_emails_gmail_api(): users().messages().list(...).execute();
\*      except Exception: return False (the lock is released)
messages_list(t) ==
    /\ program = "push" /\ Alive
    /\ pc[t] = "messages_list"
    /\ \E ok \in BOOLEAN :
        IF ok
        THEN /\ pass' = [pass EXCEPT ![t].listed = "ok"]
             /\ pc' = [pc EXCEPT ![t] = "sync_with_imapsync"]
             /\ UNCHANGED sync_lock
        ELSE /\ pass' = [pass EXCEPT ![t].listed = "fails", ![t].result = "false"]
             /\ pc' = [pc EXCEPT ![t] = ret[t]]
             /\ sync_lock' = FALSE
    /\ UNCHANGED <<scenario, program, env, ret, running, source_conn, elapsed, health,
                   lastReport, sig, exitCode, watchEnd, lastConnect,
                   backedOff, connUse, msg>>

\* ---- sync_with_imapsync(): build cmd; subprocess.run(cmd, timeout=300).
\*      A None in the argument list raises TypeError before anything is
\*      spawned (except Exception: return False); '' is a valid argument.
sync_with_imapsync(t) ==
    /\ program = "push" /\ Alive
    /\ pc[t] = "sync_with_imapsync"
    /\ IF \E k \in Required : imapsync_cmd[k] = "unset"
       THEN /\ pass' = [pass EXCEPT ![t].rc = "error", ![t].result = "false"]
            /\ pc' = [pc EXCEPT ![t] = ret[t]]
            /\ sync_lock' = FALSE
       ELSE /\ pass' = [pass EXCEPT ![t].tool = @ + 1,
                                    ![t].cmd = sync_with_imapsync_cmd(scenario.config, env)]
            /\ pc' = [pc EXCEPT ![t] = "push_imapsync_wait"]
            /\ UNCHANGED sync_lock
    /\ UNCHANGED <<scenario, program, env, ret, running, source_conn, elapsed, health,
                   lastReport, sig, exitCode, watchEnd, lastConnect,
                   backedOff, connUse, msg>>

\* ---- sync_with_imapsync(): the tool ends; returncode 0 -> True, else False
sync_with_imapsync_done(t) ==
    /\ program = "push" /\ Alive
    /\ pc[t] = "push_imapsync_wait"
    /\ \E outcome \in ToolOutcomes :
        pass' = [pass EXCEPT ![t].rc = outcome,
                             ![t].result = IF outcome = "zero" THEN "true" ELSE "false"]
    /\ sync_lock' = FALSE
    /\ pc' = [pc EXCEPT ![t] = ret[t]]
    /\ UNCHANGED <<scenario, program, env, ret, running, source_conn, elapsed, health,
                   lastReport, sig, exitCode, watchEnd, lastConnect,
                   backedOff, connUse, msg>>

\* ---- callback(): message.ack() after sync_emails_gmail_api() returned
ack(c) ==
    /\ program = "push" /\ Alive
    /\ pc[c] = "ack"
    /\ msg' = [msg EXCEPT ![c].state = "acked", ![c].decisions = @ + 1]
    /\ pc' = [pc EXCEPT ![c] = "done"]
    /\ UNCHANGED <<scenario, program, env, ret, running, sync_lock, source_conn, elapsed,
                   health, lastReport, pass, sig, exitCode, watchEnd,
                   lastConnect, backedOff, connUse>>

\* ================================================================== Next
Next ==
    \/ IMAPIdleSync_init
    \/ start
    \/ start_thread
    \/ \E t \in {Main, Watcher} : sync_emails_lock(t)
    \/ \E t \in {Main, Watcher} : check_existing_emails(t)
    \/ \E t \in {Main, Watcher} : sync_emails_run(t)
    \/ \E t \in {Main, Watcher} : sync_emails_done(t)
    \/ idle_loop
    \/ connect_source
    \/ backoff
    \/ idle_report
    \/ send_idle
    \/ TimePasses
    \/ poll
    \/ response
    \/ send_done
    \/ after_watch
    \/ refresh
    \/ Signal
    \/ signal_handler
    \/ stop
    \/ stop_done
    \/ stop_logout
    \/ stop_join
    \/ signal_exit
    \/ GmailPushSync_init
    \/ gmail_start
    \/ subscribe
    \/ \E c \in Callbacks : deliver(c)
    \/ \E c \in Callbacks : callback(c)
    \/ \E t \in {Main} \cup Callbacks : sync_emails_gmail_api(t)
    \/ \E t \in {Main} \cup Callbacks : messages_list(t)
    \/ \E t \in {Main} \cup Callbacks : sync_with_imapsync(t)
    \/ \E t \in {Main} \cup Callbacks : sync_with_imapsync_done(t)
    \/ \E c \in Callbacks : ack(c)

Spec == Init /\ [][Next]_vars

\* ---- runs without a shutdown signal, under every scenario
NextScenarios ==
    \/ IMAPIdleSync_init
    \/ start
    \/ start_thread
    \/ \E t \in {Main, Watcher} : sync_emails_lock(t)
    \/ \E t \in {Main, Watcher} : check_existing_emails(t)
    \/ \E t \in {Main, Watcher} : sync_emails_run(t)
    \/ \E t \in {Main, Watcher} : sync_emails_done(t)
    \/ idle_loop
    \/ connect_source
    \/ backoff
    \/ idle_report
    \/ send_idle
    \/ TimePasses
    \/ poll
    \/ response
    \/ send_done
    \/ after_watch
    \/ refresh
    \/ GmailPushSync_init
    \/ gmail_start
    \/ subscribe
    \/ \E c \in Callbacks : deliver(c)
    \/ \E c \in Callbacks : callback(c)
    \/ \E t \in {Main} \cup Callbacks : sync_emails_gmail_api(t)
    \/ \E t \in {Main} \cup Callbacks : messages_list(t)
    \/ \E t \in {Main} \cup Callbacks : sync_with_imapsync(t)
    \/ \E t \in {Main} \cup Callbacks : sync_with_imapsync_done(t)
    \/ \E c \in Callbacks : ack(c)

SpecScenarios == InitScenarios /\ [][NextScenarios]_vars

\* ---- imap-idle-sync.py with a valid configuration and no shutdown signal,
\*      over the pre-check scenarios
InitPrecheck ==
    /\ scenario \in PrecheckScenarios
    /\ InitState
    /\ program = "idle"
    /\ \A k \in Required : env[k] = "set"

NextPrecheck ==
    \/ IMAPIdleSync_init
    \/ start
    \/ start_thread
    \/ \E t \in {Main, Watcher} : sync_emails_lock(t)
    \/ \E t \in {Main, Watcher} : check_existing_emails(t)
    \/ \E t \in {Main, Watcher} : sync_emails_run(t)
    \/ \E t \in {Main, Watcher} : sync_emails_done(t)
    \/ idle_loop
    \/ connect_source
    \/ backoff
    \/ idle_report
    \/ send_idle
    \/ TimePasses
    \/ poll
    \/ response
    \/ send_done
    \/ after_watch
    \/ refresh

SpecPrecheck == InitPrecheck /\ [][NextPrecheck]_vars

TypeOK ==
    /\ program \in {"idle", "push"}
    /\ running \in BOOLEAN /\ sync_lock \in BOOLEAN /\ elapsed \in BOOLEAN
    /\ exitCode \in {NoExit, 0, 1}
    /\ \A t \in Threads : pass[t].tool \in 0..1 /\ pass[t].reports \in 0..1

\* ================================================================ claims
InPass(t) == pc[t] \in PassPcs
BadSetting == \E k \in Required : env[k] # "set"
ConnectFailures == {"open_fails", "login_fails", "select_raises"}

\* C1: in every reachable state at most one thread is inside a
\* synchronization pass (the with-sync_lock section that runs the tool),
\* whichever of start(), the watcher or the push callbacks triggered it.
C1_AtMostOnePass ==
    Cardinality({t \in Threads : InPass(t)}) <= 1

\* two callbacks were delivered; one runs the tool, the other waits for the lock
C1_Witness ==
    \E t, u \in Callbacks :
        /\ pc[t] = "push_imapsync_wait"
        /\ pc[u] = "sync_emails_gmail_api"
        /\ sync_lock

\* C2 (as claimed): every trigger runs its own pass and every pass makes
\* exactly one tool invocation, so N triggers give N invocations.
C2_OneInvocationPerTrigger ==
    \A t \in Threads : pass[t].result # "none" => pass[t].tool = 1

\* C3 (as claimed): when the watcher is back at the top of its loop after a
\* watch that ended with ChangeDetected or TimedOut, source_conn is None.
C3_DisconnectedAfterWatch ==
    (pc[Watcher] = "idle_loop" /\ watchEnd \in {"change", "timeout"})
        => ~Truthy(source_conn)

\* C3 (amended): after a watch that ended with TimedOut the handle is None at
\* the top of the loop and no IDLE is prepared before connect_source ran
\* again; after ChangeDetected (timeout not reached) the handle is kept.
C3_DisconnectedAfterTimeout ==
    /\ (pc[Watcher] = "idle_loop" /\ watchEnd = "timeout") => ~Truthy(source_conn)
    /\ pc[Watcher] \in {"idle_report", "send_idle"} => watchEnd # "timeout"
    /\ (pc[Watcher] = "idle_loop" /\ watchEnd = "change") => Truthy(source_conn)

\* the periodic pass returned and the watcher is about to loop
C3_Witness ==
    /\ pc[Watcher] = "idle_loop" /\ watchEnd = "timeout"
    /\ pass[Watcher].result # "none" /\ running

\* C4 (as claimed): after a failed connect_source the handle is None and the
\* watcher does not go on to IDLE on it.
C4_FailedConnectLeavesNoHandle ==
    lastConnect \in ConnectFailures =>
        /\ ~Truthy(source_conn)
        /\ pc[Watcher] \notin {"idle_report", "send_idle", "poll", "response"}

\* C5 (as claimed): after ConnectionLost the handle is None, no sync pass
\* runs for that watch, and connect_source is retried only after the backoff.
C5_LostMeansBackoff ==
    watchEnd = "lost" =>
        /\ ~Truthy(source_conn)
        /\ pc[Watcher] \notin ({"sync_emails"} \cup PassPcs)
        /\ pc[Watcher] = "connect_source" => backedOff

\* C6: a sync pass of the watcher's engine reports health exactly once, at
\* its end, and the status agrees with the result: healthy iff the tool
\* exited with 0 iff the pass returns True.
C6_HealthOncePerPass ==
    program = "idle" =>
        \A t \in {Main, Watcher} :
            /\ InPass(t) => pass[t].reports = 0
            /\ pass[t].result # "none" =>
                /\ pass[t].reports = 1
                /\ pass[t].status = "healthy" <=> pass[t].rc = "zero"
                /\ pass[t].status = "unhealthy" <=> pass[t].rc # "zero"
                /\ pass[t].result = "true" <=> pass[t].rc = "zero"
            /\ (pc[t] \in {"start_thread", "refresh"} /\ Alive) =>
                /\ lastReport.by = t
                /\ lastReport.status = pass[t].status
                /\ lastReport.written => health = pass[t].status

\* the periodic pass timed out and wrote unhealthy
C6_Witness ==
    /\ pc[Watcher] = "refresh" /\ pass[Watcher].rc = "timeout"
    /\ lastReport.written /\ health = "unhealthy"

\* C7: no error ends the watcher loop: the thread never dies of an
\* exception, and it has left the loop only if running is false.
C7_WatcherSurvives ==
    /\ pc[Watcher] # "crashed"
    /\ pc[Watcher] = "done" => ~running

\* sending IDLE failed on a connected handle; the watcher is in its backoff
C7_Witness ==
    /\ pc[Watcher] = "backoff" /\ running
    /\ lastConnect = "ok" /\ ~Truthy(source_conn)
    /\ lastReport.status = "unhealthy"

C9_ValidationFatal ==
    (program = "idle" /\ BadSetting) =>
        /\ pc[Main] \in {"init", "exited"}
        /\ ~running
        /\ pc[Watcher] = "not_started"
        /\ ~Truthy(source_conn) /\ lastConnect = "none"
        /\ \A t \in Threads : pass[t] = NoPass
        /\ ~sync_lock
        /\ (pc[Main] = "exited" /\ sig = "none") => exitCode = 1

\* PASSWORD_2 is set but empty and the process has exited with 1
C9_Witness ==
    /\ program = "idle" /\ env["password2"] = "empty"
    /\ exitCode = 1 /\ pc[Main] = "exited"

\* C10 (as claimed): whenever the tool has been invoked, all six credential
\* fields of its command line are present.
C10_CredentialsPresent ==
    \A t \in Threads :
        pass[t].tool > 0 => \A k \in Required : imapsync_cmd[k] = "set"

Range(seq) == {seq[i] : i \in 1..Len(seq)}
HasFlag(cmd, flag) == flag \in Range(cmd)
\* the argument that follows an option
ArgOf(cmd, flag) ==
    IF \E i \in 1..(Len(cmd) - 1) : cmd[i] = flag
    THEN cmd[(CHOOSE i \in 1..(Len(cmd) - 1) : cmd[i] = flag) + 1]
    ELSE "absent"
Invoked(t) == pass[t].cmd # <<>>
Words(out) == {out[i].w : i \in 1..Len(out)}

\* C11: a tool invocation carries --delete1 exactly when the move setting is
\* true, on the watcher's path and on the push adapter's path.
C11_DeleteFlagIffMove ==
    \A t \in Threads :
        Invoked(t) => (HasFlag(pass[t].cmd, "--delete1") <=> scenario.config.move)

\* the watcher invoked the tool in move mode
C11_Witness ==
    /\ program = "idle" /\ scenario.config.move
    /\ Invoked(Watcher) /\ HasFlag(pass[Watcher].cmd, "--delete1")

\* C12: every invocation by the watcher's sync engine carries --maxage,
\* --maxmessages and --maxsize with the configured values whatever the
\* pre-check counted; with limit 1000, source 1200 and destination 50 it
\* carries --maxmessages 1000.
C12_SafetyLimits ==
    program = "idle" =>
        \A t \in {Main, Watcher} :
            Invoked(t) =>
                /\ ArgOf(pass[t].cmd, "--maxage")
                       = ToString(scenario.config.date_filter_days)
                /\ ArgOf(pass[t].cmd, "--maxmessages")
                       = ToString(scenario.config.max_emails_per_sync)
                /\ ArgOf(pass[t].cmd, "--maxsize")
                       = ToString(scenario.config.max_email_size)
                /\ (/\ scenario.config.max_emails_per_sync = 1000
                    /\ pass[t].precheck.source_count = 1200
                    /\ pass[t].precheck.dest_count = 50)
                       => ArgOf(pass[t].cmd, "--maxmessages") = "1000"

\* the pre-check counted 1200 and 50 and the tool was invoked with 1000
C12_Witness ==
    /\ scenario.config.max_emails_per_sync = 1000
    /\ pass[Watcher].precheck.source_count = 1200
    /\ pass[Watcher].precheck.dest_count = 50
    /\ pass[Watcher].precheck.potential_to_move = 1150
    /\ ArgOf(pass[Watcher].cmd, "--maxmessages") = "1000"

\* C13: the pre-check never gates the transfer: a pass of the watcher's
\* engine that waits for the tool or has returned invoked it exactly once.
C13_PrecheckNeverGates ==
    program = "idle" =>
        \A t \in {Main, Watcher} :
            /\ pc[t] = "imapsync_wait" => pass[t].tool = 1
            /\ pass[t].result # "none" => pass[t].tool = 1

\* the source holds 1200 messages, the pre-check could not count them and
\* estimated nothing to sync, and the pass ran the tool and returned
C13_Witness ==
    /\ scenario.mailbox.source = 1200
    /\ pass[Watcher].precheck.source_count = 0
    /\ pass[Watcher].precheck.potential_to_move = 0
    /\ pass[Watcher].tool = 1 /\ pass[Watcher].result # "none"

\* C14: exit code 0 is success whatever the output; with output matching no
\* statistics pattern the pass returns True with all counts 0 and health is
\* written healthy.
C14_ExitZeroIsSuccess ==
    program = "idle" =>
        \A t \in {Main, Watcher} :
            pass[t].rc = "zero" =>
                /\ pass[t].result = "true"
                /\ pass[t].status = "healthy"
                /\ scenario.output \in {<<>>, OutNoise} =>
                       \A x \in StatNames : pass[t].stats[x] = 0

\* the tool printed text without statistics and exited with 0
C14_Witness ==
    /\ scenario.output = OutNoise
    /\ pass[Watcher].rc = "zero" /\ pass[Watcher].result = "true"
    /\ pc[Watcher] = "refresh" /\ lastReport.status = "healthy"

\* C15: for the output "42 messages transferred" the transferred count is 42
\* and skipped, errors and bytes are 0; a statistic whose words do not occur
\* in the output is 0, and every statistic is a number.
C15_TolerantParsing ==
    program = "idle" =>
        \A t \in {Main, Watcher} :
            pass[t].rc = "zero" =>
                /\ \A x \in StatNames : pass[t].stats[x] \in Nat
                /\ scenario.output = OutFortyTwo =>
                       pass[t].stats = [x \in StatNames |->
                                           IF x = "transferred" THEN 42 ELSE 0]
                /\ "skipped" \notin Words(scenario.output) => pass[t].stats["skipped"] = 0
                /\ "errors" \notin Words(scenario.output) => pass[t].stats["errors"] = 0
                /\ "bytes" \notin Words(scenario.output) => pass[t].stats["bytes"] = 0
                /\ Words(scenario.output) \cap {"transferred", "copied"} = {}
                       => pass[t].stats["transferred"] = 0

\* the tool printed "42 messages transferred" and the pass parsed it
C15_Witness ==
    /\ scenario.output = OutFortyTwo
    /\ pass[Watcher].rc = "zero" /\ pass[Watcher].stats["transferred"] = 42

\* C16: update_health_file never fails its caller: no exception leaves it,
\* a successful write leaves the record equal to the reported status, and
\* after a failed write the caller is where a successful write would have
\* put it (the watcher goes on to IDLE, a finished pass returns by the exit
\* code alone).
C16_HealthNeverFailsCaller ==
    /\ ~lastReport.raised
    /\ (lastReport.status # "none" /\ lastReport.written)
           => health = lastReport.status
    /\ program = "idle" =>
        \A t \in {Main, Watcher} :
            (pass[t].result # "none" /\ pass[t].reports = 1)
                => (pass[t].result = "true" <=> pass[t].rc = "zero")

\* the health file could not be opened after a connect, and the watcher is
\* about to send IDLE all the same
C16_Witness ==
    /\ lastReport.by = Watcher /\ lastReport.status = "healthy"
    /\ ~lastReport.written /\ health # "healthy"
    /\ pc[Watcher] = "send_idle" /\ running

Handling == {"callback", "sync_emails_gmail_api", "messages_list",
             "sync_with_imapsync", "push_imapsync_wait", "ack"}

\* C17 (as claimed): every message whose handler has finished triggered
\* exactly one sync pass, whatever its body.
C17_OnePassPerMessage ==
    \A c \in Callbacks : pc[c] = "done" => msg[c].passes = 1

\* C17 (amended): a delivered message whose body decodes as JSON triggers
\* exactly one sync pass, started after delivery and finished before the
\* handler ends; a body that does not decode triggers none and is nacked.
C17_OnePassPerDecodedMessage ==
    \A c \in Callbacks :
        /\ msg[c].passes \in 0..1
        /\ msg[c].state = "pending" => msg[c].passes = 0
        /\ (pc[c] = "done" /\ msg[c].payload = "json") => msg[c].passes = 1
        /\ msg[c].payload = "garbage" =>
            /\ msg[c].passes = 0
            /\ pc[c] = "done" => msg[c].state = "nacked"

\* one message with a JSON body was handled with one pass, another with a
\* body that is not JSON was nacked without a pass
C17_Witness ==
    \E c, e \in Callbacks :
        /\ pc[c] = "done" /\ msg[c].payload = "json" /\ msg[c].passes = 1
        /\ pc[e] = "done" /\ msg[e].payload = "garbage" /\ msg[e].passes = 0
        /\ msg[e].state = "nacked"

\* C18: each delivered message gets one acknowledgement decision: none while
\* the handler runs, exactly one when it has finished; an ack only after
\* the triggered pass returned (whatever it returned); a nack and no ack
\* when processing raised.
C18_OneAckDecision ==
    \A c \in Callbacks :
        /\ msg[c].decisions \in 0..1
        /\ pc[c] \in Handling => (msg[c].state = "delivered" /\ msg[c].decisions = 0)
        /\ pc[c] = "done" =>
            /\ msg[c].state \in {"acked", "nacked"}
            /\ msg[c].decisions = 1
        /\ msg[c].state = "acked" =>
            /\ pc[c] = "done" /\ ~InPass(c)
            /\ msg[c].passes = 1 /\ pass[c].result # "none"
        /\ (pc[c] = "done" /\ msg[c].payload = "garbage") => msg[c].state = "nacked"

\* a message was acknowledged after its pass returned False
C18_Witness ==
    \E c \in Callbacks :
        /\ msg[c].state = "acked" /\ msg[c].decisions = 1
        /\ pass[c].result = "false" /\ pass[c].tool = 1

\* C19 (as claimed): once stop() has set running to false the watcher neither
\* connects again nor starts a new watch.
C19_NoNewWatchAfterStop ==
    [][(~running /\ pc'[Watcher] # pc[Watcher])
          => pc[Watcher] \notin {"connect_source", "send_idle"}]_vars

\* C20 (as claimed): when the process has exited, no sync pass was cut
\* short: no thread is inside a pass, and every pass that invoked the tool
\* has recorded its result.
C20_PassCompletesBeforeExit ==
    exitCode # NoExit =>
        \A t \in {Main, Watcher} :
            /\ ~InPass(t)
            /\ pass[t].tool > 0 => pass[t].result # "none"

\* C21 (as claimed): a watch cycle triggers at most one sync pass: the
\* periodic pass is never started in a cycle whose change-detected pass has
\* already run.
C21_OnePassPerCycle ==
    [][(pc[Watcher] = "after_watch" /\ pc'[Watcher] = "sync_emails")
          => watchEnd # "change"]_vars

\* C22 (as claimed): when the watcher has written healthy before IDLE or in
\* the heartbeat, the handle it held was a session that had completed login
\* and folder selection.
C22_HealthyOnlyOnLiveSession ==
    (/\ pc[Watcher] \in {"send_idle", "response"}
     /\ lastReport.by = Watcher /\ lastReport.status = "healthy")
        => lastReport.stage = "selected"

\* C24 (as claimed): every tool invocation on the push path carries
\* --maxage, --maxmessages and --maxsize.
C24_PushSafetyLimits ==
    program = "push" =>
        \A t \in Threads :
            Invoked(t) =>
                /\ HasFlag(pass[t].cmd, "--maxage")
                /\ HasFlag(pass[t].cmd, "--maxmessages")
                /\ HasFlag(pass[t].cmd, "--maxsize")

\* C25 (as claimed): a message is acknowledged only if the pass it
\* triggered returned True.
C25_AckOnlyAfterSuccess ==
    \A c \in Callbacks : msg[c].state = "acked" => pass[c].result = "true"

\* C26 (as claimed): every DONE, from the watcher or from stop(), is sent on
\* a connection that has an IDLE open.
C26_DoneAnswersOpenIdle ==
    [][((sig = "stop_done" /\ sig' = "stop_logout")
        \/ (pc[Watcher] = "send_done" /\ pc'[Watcher] = "sync_emails")
        \/ (connUse' # connUse /\ connUse'.op = "DONE"))
          => source_conn.idle]_vars

\* C27: the initial pass of start() is over before the watcher thread
\* exists, so the two never run together; the watcher is started whatever
\* the initial pass returned.
C27_InitialPassBeforeWatcher ==
    program = "idle" =>
        /\ (pc[Main] \in {"init", "start", "sync_emails", "start_thread"} \/ InPass(Main))
               => pc[Watcher] = "not_started"
        /\ pc[Watcher] # "not_started" =>
               /\ pass[Main].tool = 1 /\ pass[Main].result # "none"
               /\ ~InPass(Main)
        /\ pc[Main] = "main_loop" => pc[Watcher] # "not_started"

\* the initial pass failed and the watcher is waiting in IDLE
C27_Witness ==
    /\ pass[Main].result = "false" /\ pc[Main] = "main_loop"
    /\ pc[Watcher] = "poll" /\ source_conn.idle

\* C28 (as claimed): the line "Total bytes transferred: 1000" sets the
\* bytes statistic to 1000 and leaves the transferred count at 0.
C28_BytesLineSetsBytesOnly ==
    program = "idle" =>
        \A t \in {Main, Watcher} :
            (pass[t].rc = "zero" /\ scenario.output = OutBytes) =>
                /\ pass[t].stats["bytes"] = 1000
                /\ pass[t].stats["transferred"] = 0

\* C23: the pre-check's estimate is max(0, source - destination), 0 for an
\* empty source, and the announced number is min(estimate, limit); for
\* 1200, 50 and limit 1000 they are 1150 and 1000.
C23_PrecheckEstimate ==
    \A t \in {Main, Watcher} :
        LET p == pass[t].precheck
            limit == scenario.config.max_emails_per_sync
        IN /\ p.source_count > p.dest_count
                 => p.potential_to_move = p.source_count - p.dest_count
           /\ p.source_count <= p.dest_count => p.potential_to_move = 0
           /\ p.source_count = 0 => p.potential_to_move = 0
           /\ p.potential_to_move <= limit => p.ready = p.potential_to_move
           /\ p.potential_to_move > limit => p.ready = limit
           /\ (p.source_count = 1200 /\ p.dest_count = 50 /\ limit = 1000)
                 => (p.potential_to_move = 1150 /\ p.ready = 1000)

\* the watcher's pre-check counted 1200 and 50 under the limit 1000
C23_Witness ==
    pass[Watcher].precheck = [source_count |-> 1200, dest_count |-> 50,
                              potential_to_move |-> 1150, ready |-> 1000]

====
